---- MODULE Spec2Model ----
(***************************************************************************)
(* Font Overlay Comparator (src/src/FontOverlayComparator.tsx).            *)
(*                                                                         *)
(* The component's React state, its event handlers and the asynchronous    *)
(* font loads they start, as a state machine.  A handler that awaits is    *)
(* split at its awaits: the synchronous prefix is one action, each         *)
(* resumption after a load settles is another.                             *)
(***************************************************************************)
EXTENDS Integers, Sequences, FiniteSets, TLC

VARIABLES
    fontA,            \* useState<LoadedFont | null>: <<>> is null, <<f>> holds f
    fontB,
    text,             \* comparison string, a sequence of characters
    fontSize,
    letterSpacing,
    dx,               \* offset of B, in half pixels (the slider's step is 0.5)
    dy,
    overlayMode,
    showChecker,
    stroke,
    strokeWidth,
    gridOpen,
    isDragging,
    dragCounter,      \* useRef<number>
    gridCharsPreset,
    customChars,
    messages,         \* Msg[], newest first
    tasks,            \* the async handler invocations suspended at an await
    msgClock,         \* number of ids handed out so far (Date.now() + Math.random())
    dragEvents,       \* history: the enter/leave events delivered so far
    loadHistory       \* history: what each load in flight has lived through

params == <<text, fontSize, letterSpacing, dx, dy, overlayMode, showChecker,
            stroke, strokeWidth, gridOpen, gridCharsPreset, customChars>>
slots == <<fontA, fontB>>
drag == <<isDragging, dragCounter>>
vars == <<fontA, fontB, text, fontSize, letterSpacing, dx, dy, overlayMode,
          showChecker, stroke, strokeWidth, gridOpen, isDragging, dragCounter,
          gridCharsPreset, customChars, messages, tasks, msgClock, dragEvents,
          loadHistory>>

----------------------------------------------------------------------------
(* Bounds of the exploration. *)

MaxTasks == 1
MaxPushes == 1
MaxDrag == 1
MaxDropFiles == 2
MaxLogPushes == 6
MaxDragEvents == 7
MaxRacing == 3

----------------------------------------------------------------------------
(* Files and fonts. *)

\* A file name is its stem and the text after its last dot.
FileTtf == [stem |-> "a", ext |-> "ttf"]
FileWoff == [stem |-> "b", ext |-> "WOFF2"]
FileTxt == [stem |-> "c", ext |-> "txt"]
Files == {FileTtf, FileWoff, FileTxt}

\* /\.(ttf|otf|woff2?|TTF|OTF|WOFF2?)$/.test(f.name)
FontExts == {"ttf", "otf", "woff", "woff2", "TTF", "OTF", "WOFF", "WOFF2"}

IsFontFile(f) == f.ext \in FontExts

SlotLabels == {"A", "B"}

NoFont == <<>>

\* What loadFontFromFile returns on success.  uniqueName joins the label, the
\* sanitized file name and a timestamp; the timestamp only separates repeated
\* loads and is left out.
LoadedFont(file, label) ==
    [name |-> <<label, file.stem, file.ext>>, displayName |-> file, face |-> file]

\* The texts of the rejections a load can meet: file.arrayBuffer() or face.load().
LoadErrors == {"NotReadableError", "SyntaxError"}

----------------------------------------------------------------------------
(* Diagnostic messages. *)

LogCap == 5

MsgUnrecognized == [kind |-> "unrecognized", file |-> <<>>, err |-> ""]
MsgOccupied == [kind |-> "occupied", file |-> <<>>, err |-> ""]
MsgLoadFailed(file, err) == [kind |-> "loadFailed", file |-> <<file>>, err |-> err]

Min(a, b) == IF a < b THEN a ELSE b

\* arr.slice(0, n)
Slice0(arr, n) == SubSeq(arr, 1, Min(n, Len(arr)))

\* Faulty variant: the log is never cut.
pushMessageUncut(arr, id, msg) == <<[id |-> id, msg |-> msg]>> \o arr

\* The updater pushMessage hands to setMessages.
pushMessage(arr, id, msg) == Slice0(<<[id |-> id, msg |-> msg]>> \o arr, LogCap)

----------------------------------------------------------------------------
(* The platform's text measurement (ctx.measureText): an advance per       *)
(* character, and in a shaped run a kerning adjustment per adjacent pair.   *)
(* Widths are in pixels per pixel of font size, times the font size.        *)

Max(a, b) == IF a > b THEN a ELSE b

\* document.fonts resolves a registered name to the face loaded under it.
FaceOf(fontName) == [stem |-> fontName[2], ext |-> fontName[3]]

Advance(face, ch) ==
    IF ch = " " THEN 3
    ELSE (IF face.stem = "a" THEN 5 ELSE 6) + (IF ch \in {"m", "M", "W"} THEN 2 ELSE 0)

Kern(face, c1, c2) ==
    IF <<c1, c2>> \in {<<"A", "V">>, <<"f", "o">>}
    THEN (IF face.stem = "a" THEN -1 ELSE -2)
    ELSE 0

RECURSIVE ShapedUnits(_, _, _)
ShapedUnits(face, s, i) ==
    IF i > Len(s) THEN 0
    ELSE Advance(face, s[i])
         + (IF i < Len(s) THEN Kern(face, s[i], s[i + 1]) ELSE 0)
         + ShapedUnits(face, s, i + 1)

\* ctx.font = `${size}px "${fontName}"`; ctx.measureText(s).width
MeasureText(fontName, size, s) == size * ShapedUnits(FaceOf(fontName), s, 1)

----------------------------------------------------------------------------
(* measureString *)

RECURSIVE measureLoop(_, _, _, _, _)
measureLoop(fontName, content, ls, i, w) ==
    IF i > Len(content) THEN w
    ELSE measureLoop(fontName, content, ls, i + 1,
                     w + MeasureText(fontName, fontSize, <<content[i]>>) + ls)

\* Faulty variant: the spacing is added to the shaped width of the whole string.
measureStringKerned(fontName, content, ls) ==
    MeasureText(fontName, fontSize, content) + ls * Len(content)

measureString(fontName, content, ls) ==
    LET m == MeasureText(fontName, fontSize, content)
    IN  IF ls = 0 THEN m ELSE measureLoop(fontName, content, ls, 1, 0)

----------------------------------------------------------------------------
(* Canvas calls.  A run of a drawing routine is the sequence of the calls   *)
(* it makes; x and y are in half pixels.                                    *)

Call(op, font, str, x, y, style) ==
    [op |-> op, font |-> font, str |-> str, x |-> x, y |-> y, style |-> style]

Plain(op) == Call(op, <<>>, <<>>, 0, 0, <<>>)

RECURSIVE drawLoop(_, _, _, _, _, _, _, _)
drawLoop(fontName, content, cx, y, color, ls, st, i) ==
    IF i > Len(content) THEN <<>>
    ELSE LET ch == <<content[i]>>
         IN  (IF st THEN <<Call("strokeText", fontName, ch, cx, y, color)>> ELSE <<>>)
             \o <<Call("fillText", fontName, ch, cx, y, color)>>
             \o drawLoop(fontName, content,
                         cx + 2 * (MeasureText(fontName, fontSize, ch) + ls),
                         y, color, ls, st, i + 1)

\* style is <<fillStyle and strokeStyle, lineWidth>>
drawString(fontName, content, x, y, color, ls, st, sw) ==
    IF ls = 0
    THEN (IF st THEN <<Call("strokeText", fontName, content, x, y, <<color, sw>>)>>
          ELSE <<>>)
         \o <<Call("fillText", fontName, content, x, y, <<color, sw>>)>>
    ELSE drawLoop(fontName, content, x, y, <<color, sw>>, ls, st, 1)

pad == 32

\* Math.ceil(n / d) and Math.round(n / d) for d > 0
CeilDiv(n, d) == -((-n) \div d)
RoundDiv(n, d) == (2 * n + d) \div (2 * d)

\* The two glyph layers: drawString for A, then for B at the offset.
compose(a, b, x, y) ==
    IF overlayMode = "difference"
    THEN drawString(a.name, text, x, y, "#ffffff", letterSpacing, stroke, strokeWidth)
         \o <<Plain("globalCompositeOperation=difference")>>
         \o drawString(b.name, text, x + dx, y + dy, "#ffffff",
                       letterSpacing, stroke, strokeWidth)
         \o <<Plain("globalCompositeOperation=source-over")>>
    ELSE drawString(a.name, text, x, y, "rgba(255,0,0,0.85)",
                    letterSpacing, stroke, strokeWidth)
         \o drawString(b.name, text, x + dx, y + dy, "rgba(0,255,255,0.85)",
                       letterSpacing, stroke, strokeWidth)

background ==
    <<Plain("clearRect")>> \o (IF showChecker THEN <<Plain("drawChecker")>> ELSE <<>>)

placeholder ==
    <<Call("fillText", <<"system-ui">>, <<"placeholder">>, 2 * 24, 2 * 40, <<"#999">>)>>

\* The part of drawCanvas after the placeholder return, a and b being the
\* fonts of slots A and B.
comparison(a, b) ==
    LET wA == measureString(a.name, text, letterSpacing)
        wB == measureString(b.name, text, letterSpacing)
        w == Max(320, Max(wA, wB) + pad * 2)
        h == Max(120, CeilDiv(fontSize * 18, 10) + pad * 2)
        x == pad
        y == h - pad - RoundDiv(h - fontSize, 4)
    IN  <<Call("measureString", a.name, text, 0, 0, <<>>),
          Call("measureString", b.name, text, 0, 0, <<>>),
          Call("resize", <<>>, <<>>, 2 * w, 2 * h, <<>>)>>
        \o (IF showChecker THEN <<Plain("drawChecker")>> ELSE <<Plain("clearRect")>>)
        \o compose(a, b, 2 * x, 2 * y)
        \o <<Call("baseline", <<>>, <<>>, 2 * 8, 2 * y + 1, <<"rgba(0,0,0,0.15)">>),
             Call("fillText", <<"system-ui">>,
                  <<"A:", a.displayName.stem, a.displayName.ext>>,
                  2 * 12, 2 * (h - 8), <<"#111">>),
             Call("fillText", <<"system-ui">>,
                  <<"B:", b.displayName.stem, b.displayName.ext>>,
                  w, 2 * (h - 8), <<"#111">>)>>

\* Faulty variant: the placeholder return is taken only when both slots are empty,
\* and a lone font stands in for the missing one.
drawCanvasOneFontEnough ==
    LET h0 == Max(200, (fontSize * 18) \div 10 + pad * 2)
        a == IF fontA = NoFont THEN fontB ELSE fontA
        b == IF fontB = NoFont THEN fontA ELSE fontB
    IN  <<Call("resize", <<>>, <<>>, 2 * 800, 2 * h0, <<>>)>>
        \o background
        \o (IF fontA = NoFont /\ fontB = NoFont THEN placeholder
            ELSE comparison(a[1], b[1]))

\* The calls one run of drawCanvas makes, on the current state.  An effect
\* runs it after every change of fontA, fontB, text, fontSize, letterSpacing,
\* dx, dy, overlayMode, showChecker, stroke or strokeWidth, which is all it
\* reads, so the canvas always shows the run on the current state.  The
\* backing store is scaled by the device pixel ratio; sizes here are the
\* logical ones.
drawCanvas ==
    LET h0 == Max(200, (fontSize * 18) \div 10 + pad * 2)
    IN  <<Call("resize", <<>>, <<>>, 2 * 800, 2 * h0, <<>>)>>
        \o background
        \o (IF fontA = NoFont \/ fontB = NoFont THEN placeholder
            ELSE comparison(fontA[1], fontB[1]))

----------------------------------------------------------------------------
(* Glyph grid and metrics. *)

DefaultText ==
    <<"H", "a", "m", "b", "u", "r", "g", "e", "f", "o", "n", "s", "t", "i",
      "v", " ", "0", "1", "2", "3", "4", "5", "6", "7", "8", "9", " ", "A",
      "B", "C", "D", " ", "a", "b", "c", "d">>
CapsChars ==
    <<"A", "B", "C", "D", "E", "F", "G", "H", "I", "J", "K", "L", "M", "N",
      "O", "P", "Q", "R", "S", "T", "U", "V", "W", "X", "Y", "Z">>
LowerChars ==
    <<"a", "b", "c", "d", "e", "f", "g", "h", "i", "j", "k", "l", "m", "n",
      "o", "p", "q", "r", "s", "t", "u", "v", "w", "x", "y", "z">>
DigitChars ==
    <<"0", "1", "2", "3", "4", "5", "6", "7", "8", "9">>
PunctChars ==
    <<".", ",", ";", ":", "!", "?", "(", ")", "[", "]", "{", "}", "-",
      "emdash", "_">>

GridPresets == {"basic-latin", "caps", "lower", "digits", "punct", "custom"}

gridChars ==
    CASE gridCharsPreset = "caps" -> CapsChars
      [] gridCharsPreset = "lower" -> LowerChars
      [] gridCharsPreset = "digits" -> DigitChars
      [] gridCharsPreset = "punct" -> PunctChars
      [] gridCharsPreset = "custom" -> customChars
      [] OTHER -> CapsChars \o LowerChars \o DigitChars

\* Faulty variant: the grid is rendered whatever the slots hold.
gridCellsWithoutFonts == IF gridOpen THEN gridChars ELSE <<>>

\* The GlyphCell elements the render emits, by their ch prop, in order.
gridCells ==
    IF gridOpen
    THEN (IF fontA = NoFont \/ fontB = NoFont THEN <<>> ELSE gridChars)
    ELSE <<>>

\* The metrics memo: <<>> is null.
metrics ==
    IF fontA = NoFont \/ fontB = NoFont THEN <<>>
    ELSE LET wA == measureString(fontA[1].name, text, letterSpacing)
             wB == measureString(fontB[1].name, text, letterSpacing)
         IN  <<[wA |-> wA, wB |-> wB, diff |-> wB - wA]>>

----------------------------------------------------------------------------
(* Initial state: the useState and useRef initial values.                   *)

\* No load has been started: started counts the loads started, pending runs
\* parallel to tasks, last holds the load that settled last, held what the
\* slots held when the last drop was handled.
NoHistory ==
    [started |-> 0, pending |-> <<>>, last |-> <<>>, held |-> <<NoFont, NoFont>>]

Init ==
    /\ fontA = NoFont
    /\ fontB = NoFont
    /\ text = DefaultText
    /\ fontSize = 120
    /\ letterSpacing = 0
    /\ dx = 0
    /\ dy = 0
    /\ overlayMode = "red-cyan"
    /\ showChecker = TRUE
    /\ stroke = FALSE
    /\ strokeWidth = 1
    /\ gridOpen = FALSE
    /\ isDragging = FALSE
    /\ dragCounter = 0
    /\ gridCharsPreset = "basic-latin"
    /\ customChars = <<>>
    /\ messages = <<>>
    /\ tasks = <<>>
    /\ msgClock = 0
    /\ dragEvents = <<>>
    /\ loadHistory = NoHistory

----------------------------------------------------------------------------
(* Font loading and the handlers that start it. *)

\* loadFontFromFile once its awaits have settled: outcome is "ok" or the text
\* of the rejection.  loaded is the value returned (<<>> is null), log the
\* messages it pushes.
loadFontFromFile(file, label, outcome) ==
    IF outcome = "ok"
    THEN [loaded |-> <<LoadedFont(file, label)>>, log |-> <<>>]
    ELSE [loaded |-> NoFont, log |-> <<MsgLoadFailed(file, outcome)>>]

\* An async handler suspended in `await loadFontFromFile(files[idx], label)`.
Task(handler, files, idx, label) ==
    [handler |-> handler, files |-> files, idx |-> idx, label |-> label]

Remove(seq, i) == SubSeq(seq, 1, i - 1) \o SubSeq(seq, i + 1, Len(seq))

\* setMessages applied once per message of log, each with a fresh id.
RECURSIVE PushAll(_, _, _)
PushAll(arr, clock, log) ==
    IF log = <<>> THEN arr
    ELSE PushAll(pushMessage(arr, clock + 1, Head(log)), clock + 1, Tail(log))

Log(log) ==
    /\ messages' = PushAll(messages, msgClock, log)
    /\ msgClock' = msgClock + Len(log)

\* Faulty variant: the setter runs without the null check.
SetSlotUnchecked(label, loaded) ==
    IF label = "A" THEN fontA' = loaded /\ fontB' = fontB
    ELSE fontB' = loaded /\ fontA' = fontA

\* Faulty variant: a loaded font is written only into an empty slot.
SetSlotIfEmpty(label, loaded) ==
    IF loaded = NoFont THEN UNCHANGED <<fontA, fontB>>
    ELSE IF label = "A"
    THEN fontA' = (IF fontA = NoFont THEN loaded ELSE fontA) /\ fontB' = fontB
    ELSE fontB' = (IF fontB = NoFont THEN loaded ELSE fontB) /\ fontA' = fontA

\* setFontA(loaded) or setFontB(loaded), when loaded is not null
SetSlot(label, loaded) ==
    IF loaded = NoFont THEN UNCHANGED <<fontA, fontB>>
    ELSE IF label = "A" THEN fontA' = loaded /\ fontB' = fontB
    ELSE fontB' = loaded /\ fontA' = fontA

\* Faulty variant: slot B is tried before slot A.
onDropBFirst(files) ==
    LET fontFiles == SelectSeq(files, IsFontFile)
    IN  /\ dragCounter' = 0
        /\ isDragging' = FALSE
        /\ IF Len(fontFiles) = 0
           THEN Log(<<MsgUnrecognized>>) /\ UNCHANGED tasks
           ELSE IF fontB = NoFont
           THEN tasks' = Append(tasks, Task("drop", fontFiles, 1, "B")) /\ Log(<<>>)
           ELSE IF fontA = NoFont
           THEN tasks' = Append(tasks, Task("drop", fontFiles, 1, "A")) /\ Log(<<>>)
           ELSE Log(<<MsgOccupied>>) /\ UNCHANGED tasks
        /\ UNCHANGED <<fontA, fontB, params>>

\* Faulty variant: with both slots filled the drop replaces slot B.
onDropReplacesB(files) ==
    LET fontFiles == SelectSeq(files, IsFontFile)
    IN  /\ dragCounter' = 0
        /\ isDragging' = FALSE
        /\ IF Len(fontFiles) = 0
           THEN Log(<<MsgUnrecognized>>) /\ UNCHANGED tasks
           ELSE IF fontA = NoFont
           THEN tasks' = Append(tasks, Task("drop", fontFiles, 1, "A")) /\ Log(<<>>)
           ELSE tasks' = Append(tasks, Task("drop", fontFiles, 1, "B")) /\ Log(<<>>)
        /\ UNCHANGED <<fontA, fontB, params>>

\* Faulty variant: the drop zeroes the counter and leaves the highlight.
onDropKeepsHighlight(files) ==
    LET fontFiles == SelectSeq(files, IsFontFile)
    IN  /\ dragCounter' = 0
        /\ isDragging' = isDragging
        /\ IF Len(fontFiles) = 0
           THEN Log(<<MsgUnrecognized>>) /\ UNCHANGED tasks
           ELSE IF fontA = NoFont
           THEN tasks' = Append(tasks, Task("drop", fontFiles, 1, "A")) /\ Log(<<>>)
           ELSE IF fontB = NoFont
           THEN tasks' = Append(tasks, Task("drop", fontFiles, 1, "B")) /\ Log(<<>>)
           ELSE Log(<<MsgOccupied>>) /\ UNCHANGED tasks
        /\ UNCHANGED <<fontA, fontB, params>>

onDrop(files) ==
    LET fontFiles == SelectSeq(files, IsFontFile)
    IN  /\ dragCounter' = 0
        /\ isDragging' = FALSE
        /\ IF Len(fontFiles) = 0
           THEN Log(<<MsgUnrecognized>>) /\ UNCHANGED tasks
           ELSE IF fontA = NoFont
           THEN tasks' = Append(tasks, Task("drop", fontFiles, 1, "A")) /\ Log(<<>>)
           ELSE IF fontB = NoFont
           THEN tasks' = Append(tasks, Task("drop", fontFiles, 1, "B")) /\ Log(<<>>)
           ELSE Log(<<MsgOccupied>>) /\ UNCHANGED tasks
        /\ UNCHANGED <<fontA, fontB, params>>

\* The rest of onDrop after one of its loads has settled.
resumeDrop(i, outcome) ==
    LET t == tasks[i]
        r == loadFontFromFile(t.files[t.idx], t.label, outcome)
    IN  /\ t.handler = "drop"
        /\ Log(r.log)
        /\ SetSlot(t.label, r.loaded)
        /\ tasks' = IF t.label = "A" /\ Len(t.files) >= 2
                    THEN [tasks EXCEPT ![i] = Task("drop", t.files, 2, "B")]
                    ELSE Remove(tasks, i)
        /\ UNCHANGED <<params, drag>>

\* chosen is e.target.files
handleFilePick(chosen, which) ==
    /\ IF Len(chosen) = 0
       THEN UNCHANGED tasks
       ELSE tasks' = Append(tasks, Task("pick", <<chosen[1]>>, 1, which))
    /\ UNCHANGED <<fontA, fontB, params, drag, messages, msgClock>>

\* The rest of handleFilePick after its load has settled.
resumeFilePick(i, outcome) ==
    LET t == tasks[i]
        r == loadFontFromFile(t.files[1], t.label, outcome)
    IN  /\ t.handler = "pick"
        /\ Log(r.log)
        /\ SetSlot(t.label, r.loaded)
        /\ tasks' = Remove(tasks, i)
        /\ UNCHANGED <<params, drag>>

\* Faulty variant: the clear button also abandons the loads in flight for
\* its slot.
resetCancels(which) ==
    /\ IF which = "A"
       THEN fontA # NoFont /\ fontA' = NoFont /\ fontB' = fontB
       ELSE fontB # NoFont /\ fontB' = NoFont /\ fontA' = fontA
    /\ tasks' = SelectSeq(tasks, LAMBDA t : t.label # which)
    /\ UNCHANGED <<params, drag, messages, msgClock>>

\* Faulty variant: the clear button empties both slots.
resetBoth(which) ==
    /\ IF which = "A" THEN fontA # NoFont ELSE fontB # NoFont
    /\ fontA' = NoFont
    /\ fontB' = NoFont
    /\ UNCHANGED <<params, drag, messages, msgClock, tasks>>

\* The clear button of a slot, rendered while the slot holds a font.
reset(which) ==
    /\ IF which = "A"
       THEN fontA # NoFont /\ fontA' = NoFont /\ fontB' = fontB
       ELSE fontB # NoFont /\ fontB' = NoFont /\ fontA' = fontA
    /\ UNCHANGED <<params, drag, messages, msgClock, tasks>>

onDragEnter ==
    /\ dragCounter' = dragCounter + 1
    /\ isDragging' = TRUE
    /\ UNCHANGED <<fontA, fontB, params, messages, msgClock, tasks>>

\* Faulty variant: any leave switches the highlight off.
onDragLeaveClears ==
    /\ dragCounter' = dragCounter - 1
    /\ isDragging' = FALSE
    /\ UNCHANGED <<fontA, fontB, params, messages, msgClock, tasks>>

onDragLeave ==
    /\ dragCounter' = dragCounter - 1
    /\ isDragging' = (IF dragCounter - 1 <= 0 THEN FALSE ELSE isDragging)
    /\ UNCHANGED <<fontA, fontB, params, messages, msgClock, tasks>>

----------------------------------------------------------------------------
(* The render-parameter controls: each onChange or onClick lambda. *)

onTextChange(v) ==
    /\ text' = v
    /\ UNCHANGED <<fontSize, letterSpacing, dx, dy, overlayMode, showChecker, stroke,
                   strokeWidth, gridOpen, gridCharsPreset, customChars>>
    /\ UNCHANGED <<fontA, fontB, drag, messages, msgClock, tasks>>

onFontSizeChange(v) ==
    /\ fontSize' = v
    /\ UNCHANGED <<text, letterSpacing, dx, dy, overlayMode, showChecker, stroke,
                   strokeWidth, gridOpen, gridCharsPreset, customChars>>
    /\ UNCHANGED <<fontA, fontB, drag, messages, msgClock, tasks>>

onLetterSpacingChange(v) ==
    /\ letterSpacing' = v
    /\ UNCHANGED <<text, fontSize, dx, dy, overlayMode, showChecker, stroke,
                   strokeWidth, gridOpen, gridCharsPreset, customChars>>
    /\ UNCHANGED <<fontA, fontB, drag, messages, msgClock, tasks>>

onDxChange(v) ==
    /\ dx' = v
    /\ UNCHANGED <<text, fontSize, letterSpacing, dy, overlayMode, showChecker, stroke,
                   strokeWidth, gridOpen, gridCharsPreset, customChars>>
    /\ UNCHANGED <<fontA, fontB, drag, messages, msgClock, tasks>>

onDyChange(v) ==
    /\ dy' = v
    /\ UNCHANGED <<text, fontSize, letterSpacing, dx, overlayMode, showChecker, stroke,
                   strokeWidth, gridOpen, gridCharsPreset, customChars>>
    /\ UNCHANGED <<fontA, fontB, drag, messages, msgClock, tasks>>

onOverlayModeClick(m) ==
    /\ overlayMode' = m
    /\ UNCHANGED <<text, fontSize, letterSpacing, dx, dy, showChecker, stroke,
                   strokeWidth, gridOpen, gridCharsPreset, customChars>>
    /\ UNCHANGED <<fontA, fontB, drag, messages, msgClock, tasks>>

onStrokeChange(checked) ==
    /\ stroke' = checked
    /\ UNCHANGED <<text, fontSize, letterSpacing, dx, dy, overlayMode, showChecker,
                   strokeWidth, gridOpen, gridCharsPreset, customChars>>
    /\ UNCHANGED <<fontA, fontB, drag, messages, msgClock, tasks>>

\* The stepper is rendered while stroke is on; value is <<>> for an empty
\* field: parseInt(e.target.value || "1").
onStrokeWidthChange(value) ==
    /\ stroke
    /\ strokeWidth' = (IF value = <<>> THEN 1 ELSE value[1])
    /\ UNCHANGED <<text, fontSize, letterSpacing, dx, dy, overlayMode, showChecker,
                   stroke, gridOpen, gridCharsPreset, customChars>>
    /\ UNCHANGED <<fontA, fontB, drag, messages, msgClock, tasks>>

onShowCheckerChange(checked) ==
    /\ showChecker' = checked
    /\ UNCHANGED <<text, fontSize, letterSpacing, dx, dy, overlayMode, stroke,
                   strokeWidth, gridOpen, gridCharsPreset, customChars>>
    /\ UNCHANGED <<fontA, fontB, drag, messages, msgClock, tasks>>

onGridToggle ==
    /\ gridOpen' = ~gridOpen
    /\ UNCHANGED <<text, fontSize, letterSpacing, dx, dy, overlayMode, showChecker,
                   stroke, strokeWidth, gridCharsPreset, customChars>>
    /\ UNCHANGED <<fontA, fontB, drag, messages, msgClock, tasks>>

\* The preset select is rendered while the grid is open.
onPresetChange(v) ==
    /\ gridOpen
    /\ gridCharsPreset' = v
    /\ UNCHANGED <<text, fontSize, letterSpacing, dx, dy, overlayMode, showChecker,
                   stroke, strokeWidth, gridOpen, customChars>>
    /\ UNCHANGED <<fontA, fontB, drag, messages, msgClock, tasks>>

\* The custom-characters input is rendered while the grid is open on "custom".
onCustomCharsChange(v) ==
    /\ gridOpen
    /\ gridCharsPreset = "custom"
    /\ customChars' = v
    /\ UNCHANGED <<text, fontSize, letterSpacing, dx, dy, overlayMode, showChecker,
                   stroke, strokeWidth, gridOpen, gridCharsPreset>>
    /\ UNCHANGED <<fontA, fontB, drag, messages, msgClock, tasks>>

----------------------------------------------------------------------------
(* What the user can hand to the handlers. *)

\* e.dataTransfer.files: up to MaxDropFiles distinct files, in the order dropped
DropInputs ==
    {fs \in UNION {[1..n -> Files] : n \in 0..MaxDropFiles} :
        \A i, j \in 1..Len(fs) : fs[i] = fs[j] => i = j}
PickInputs == {<<>>} \cup {<<f>> : f \in Files}
Outcomes == {"ok"} \cup LoadErrors

\* The part of the behaviours explored.
Within(maxTasks, maxPushes, maxDrag) ==
    /\ Len(tasks') <= maxTasks
    /\ msgClock' <= maxPushes
    /\ dragCounter' \in -maxDrag..maxDrag

Session == UNCHANGED <<dragEvents, loadHistory>> /\ Within(MaxTasks, MaxPushes, 0)

Next ==
    \/ \E files \in DropInputs : onDrop(files) /\ Session
    \/ \E i \in 1..Len(tasks), o \in Outcomes : resumeDrop(i, o) /\ Session
    \/ \E c \in PickInputs, w \in SlotLabels : handleFilePick(c, w) /\ Session
    \/ \E i \in 1..Len(tasks), o \in Outcomes : resumeFilePick(i, o) /\ Session
    \/ \E w \in SlotLabels : reset(w) /\ Session

Spec == Init /\ [][Next]_vars

----------------------------------------------------------------------------
(* The parameter controls on their own, from any filling of the slots that  *)
(* successful loads leave (SpecView).                                       *)

TextInputs == {DefaultText, <<>>}
FontSizeInputs == {16, 120}
LetterSpacingInputs == {0, 2}
OffsetInputs == {0, 1}
OverlayModes == {"red-cyan", "difference"}
StrokeWidthInputs == {<<>>, <<3>>}
CustomInputs == {<<>>, <<"a", "b", "a">>}

View == UNCHANGED <<dragEvents, loadHistory>>

InitLoaded ==
    /\ fontA \in {NoFont, <<LoadedFont(FileTtf, "A")>>}
    /\ fontB \in {NoFont, <<LoadedFont(FileWoff, "B")>>}
    /\ text = DefaultText
    /\ fontSize = 120
    /\ letterSpacing = 0
    /\ dx = 0
    /\ dy = 0
    /\ overlayMode = "red-cyan"
    /\ showChecker = TRUE
    /\ stroke = FALSE
    /\ strokeWidth = 1
    /\ gridOpen = FALSE
    /\ isDragging = FALSE
    /\ dragCounter = 0
    /\ gridCharsPreset = "basic-latin"
    /\ customChars = <<>>
    /\ messages = <<>>
    /\ tasks = <<>>
    /\ msgClock = 0
    /\ dragEvents = <<>>
    /\ loadHistory = NoHistory

NextView ==
    \/ \E v \in TextInputs : onTextChange(v) /\ View
    \/ \E v \in FontSizeInputs : onFontSizeChange(v) /\ View
    \/ \E v \in LetterSpacingInputs : onLetterSpacingChange(v) /\ View
    \/ \E v \in OffsetInputs : onDxChange(v) /\ View
    \/ \E v \in OffsetInputs : onDyChange(v) /\ View
    \/ \E m \in OverlayModes : onOverlayModeClick(m) /\ View
    \/ \E b \in BOOLEAN : onStrokeChange(b) /\ View
    \/ \E v \in StrokeWidthInputs : onStrokeWidthChange(v) /\ View
    \/ \E b \in BOOLEAN : onShowCheckerChange(b) /\ View
    \/ onGridToggle /\ View
    \/ \E v \in GridPresets : onPresetChange(v) /\ View
    \/ \E v \in CustomInputs : onCustomCharsChange(v) /\ View

SpecView == InitLoaded /\ [][NextView]_vars

----------------------------------------------------------------------------
(* Claims about the drop and load handlers, checked under Spec. *)

Recognized(files) == SelectSeq(files, IsFontFile)

\* The log after one message msg has been appended to it.
Appended(msg) ==
    /\ msgClock' = msgClock + 1
    /\ Len(messages') = Min(Len(messages) + 1, LogCap)
    /\ messages'[1].msg = msg
    /\ \A k \in 1..(Len(messages') - 1) : messages'[k + 1] = messages[k]

\* C1: a drop with a recognized file loads the first recognized file for
\* slot A if A is empty, else for slot B if B is empty; when that load
\* succeeds it fills that slot and leaves the other alone; and after the
\* load for A, a second recognized file is loaded for slot B and fills it in
\* the same gesture, while a single file ends the gesture.
C1_DropFillPolicy ==
    [][/\ (fontA = NoFont \/ fontB = NoFont) =>
            \A files \in DropInputs :
                (Len(Recognized(files)) >= 1 /\ onDrop(files)) =>
                    LET rec == Recognized(files)
                    IN  /\ fontA = NoFont =>
                              tasks' = Append(tasks, Task("drop", rec, 1, "A"))
                        /\ (fontA # NoFont /\ fontB = NoFont) =>
                              tasks' = Append(tasks, Task("drop", rec, 1, "B"))
       /\ \A i \in 1..Len(tasks) :
            resumeDrop(i, "ok") =>
                LET t == tasks[i]
                IN  /\ (t.label = "A") =>
                          /\ fontA' = <<LoadedFont(t.files[1], "A")>>
                          /\ fontB' = fontB
                          /\ IF Len(t.files) >= 2
                             THEN tasks' = [tasks EXCEPT ![i] = Task("drop", t.files, 2, "B")]
                             ELSE tasks' = Remove(tasks, i)
                    /\ (t.label = "B") =>
                          /\ fontB' = <<LoadedFont(t.files[t.idx], "B")>>
                          /\ fontA' = fontA
                          /\ tasks' = Remove(tasks, i)
      ]_vars

\* The first of two dropped files has filled the empty slot A and the second
\* is being loaded for slot B.
C1_Witness ==
    \E i \in 1..Len(tasks) :
        /\ tasks[i].handler = "drop"
        /\ tasks[i].idx = 2
        /\ tasks[i].label = "B"
        /\ fontA = <<LoadedFont(tasks[i].files[1], "A")>>
        /\ fontB = NoFont

\* C2: a drop with a recognized file onto two filled slots changes neither
\* slot, starts no load and appends exactly one message, the slots-occupied
\* one.
C2_BothFilledRejects ==
    [][(fontA # NoFont /\ fontB # NoFont) =>
          \A files \in DropInputs :
              (Len(Recognized(files)) >= 1 /\ onDrop(files)) =>
                  /\ fontA' = fontA
                  /\ fontB' = fontB
                  /\ tasks' = tasks
                  /\ Appended(MsgOccupied)
      ]_vars

C2_Witness ==
    /\ fontA # NoFont
    /\ fontB # NoFont
    /\ messages # <<>>
    /\ messages[1].msg = MsgOccupied

\* C3: when a load fails, whether a file pick or a drop started it,
\* loadFontFromFile returns null, exactly one message naming the file and
\* the error text is appended, and both slots keep their values.
C3_FailedLoadLeavesSlot ==
    [][\A i \in 1..Len(tasks) : \A e \in LoadErrors :
          (resumeDrop(i, e) \/ resumeFilePick(i, e)) =>
              LET t == tasks[i]
                  file == t.files[t.idx]
              IN  /\ loadFontFromFile(file, t.label, e).loaded = NoFont
                  /\ Appended(MsgLoadFailed(file, e))
                  /\ fontA' = fontA
                  /\ fontB' = fontB
      ]_vars

\* A load has failed while both slots held a font, and both still do.
C3_Witness ==
    /\ messages # <<>>
    /\ messages[1].msg.kind = "loadFailed"
    /\ fontA # NoFont
    /\ fontB # NoFont

\* C4: a dropped or picked file with an unsupported extension gets a
\* diagnostic message and is never loaded, also in a drop that holds
\* recognized files, and changes no slot.
C4_UnrecognizedIgnored ==
    [][/\ \A files \in DropInputs :
            (onDrop(files) /\ \E k \in 1..Len(files) : ~IsFontFile(files[k])) =>
                /\ msgClock' = msgClock + 1
                /\ messages'[1].msg = MsgUnrecognized
                /\ \A j \in 1..Len(tasks') :
                       \A k \in 1..Len(tasks'[j].files) : IsFontFile(tasks'[j].files[k])
                /\ fontA' = fontA
                /\ fontB' = fontB
       /\ \A c \in PickInputs, w \in SlotLabels :
            (handleFilePick(c, w) /\ c # <<>> /\ ~IsFontFile(c[1])) =>
                /\ msgClock' = msgClock + 1
                /\ tasks' = tasks
                /\ fontA' = fontA
                /\ fontB' = fontB
      ]_vars

----------------------------------------------------------------------------
(* Drops that start no load, from any filling of the slots (SpecLog): the   *)
(* message log under a run of pushes.                                       *)

NextLog ==
    \E files \in DropInputs :
        onDrop(files) /\ UNCHANGED <<dragEvents, loadHistory>>
                      /\ Within(0, MaxLogPushes, 0)

SpecLog == InitLoaded /\ [][NextLog]_vars

\* C5: the log never holds more than 5 entries, and every push puts the new
\* message at position 0, keeps the entries before it in their order behind
\* it, and drops only the entry at position 4 of a full log.
C5_LogCapped ==
    /\ [](Len(messages) <= 5)
    /\ [][msgClock' # msgClock =>
            /\ messages'[1].id = msgClock'
            /\ Len(messages') = Min(Len(messages) + 1, 5)
            /\ \A k \in 1..(Len(messages') - 1) : messages'[k + 1] = messages[k]
         ]_vars

\* A sixth message has been pushed onto a full log.
C5_Witness == Len(messages) = 5 /\ msgClock = 6

----------------------------------------------------------------------------
(* Enter and leave events alone, with their history (SpecDrag). *)

NextDrag ==
    \/ /\ onDragEnter
       /\ dragEvents' = Append(dragEvents, "enter")
       /\ Len(dragEvents') <= MaxDragEvents
       /\ UNCHANGED loadHistory
    \/ /\ onDragLeave
       /\ dragEvents' = Append(dragEvents, "leave")
       /\ Len(dragEvents') <= MaxDragEvents
       /\ UNCHANGED loadHistory

SpecDrag == Init /\ [][NextDrag]_vars

Count(ev) == Cardinality({k \in 1..Len(dragEvents) : dragEvents[k] = ev})

\* The history is N enters followed by N leaves, for some N.
EntersThenLeaves ==
    \E n \in 0..Len(dragEvents) :
        /\ Len(dragEvents) = 2 * n
        /\ \A k \in 1..n : dragEvents[k] = "enter"
        /\ \A k \in (n + 1)..(2 * n) : dragEvents[k] = "leave"

\* C6: after N enters followed by N leaves the highlight is off, and after
\* any sequence of enters and leaves it is on whenever the enters outnumber
\* the leaves.
C6_Highlight ==
    /\ EntersThenLeaves => ~isDragging
    /\ Count("enter") > Count("leave") => isDragging

C6_Witness == dragEvents = <<"enter", "enter", "leave", "leave">> /\ ~isDragging

----------------------------------------------------------------------------
(* Claims about what is drawn, checked under SpecView. *)

\* The calls of a run that measure a string or draw glyphs of a loaded font.
GlyphCalls(run) ==
    {k \in 1..Len(run) :
        \/ run[k].op \in {"measureString", "globalCompositeOperation=difference",
                          "globalCompositeOperation=source-over", "baseline"}
        \/ run[k].op \in {"fillText", "strokeText"} /\ run[k].font # <<"system-ui">>}

\* C7: a drawCanvas run measures and composes only when both slots hold a
\* font; otherwise it only sizes and clears the canvas, paints the checker
\* if that is on, and writes the placeholder string.
C7_CompositionNeedsBoth ==
    LET run == drawCanvas
    IN  /\ GlyphCalls(run) # {} => (fontA # NoFont /\ fontB # NoFont)
        /\ (fontA = NoFont \/ fontB = NoFont) =>
              /\ \A k \in 1..(Len(run) - 1) :
                    run[k].op \in {"resize", "clearRect", "drawChecker"}
              /\ run[Len(run)].op = "fillText"
              /\ run[Len(run)].str = <<"placeholder">>

\* Exactly one slot holds a font, in difference mode with letter spacing.
C7_Witness ==
    /\ fontA # NoFont
    /\ fontB = NoFont
    /\ overlayMode = "difference"
    /\ letterSpacing > 0

\* C8: with a slot empty the grid has no cell, whatever the preset, the
\* custom string and the open flag; with both slots filled and the grid open
\* it has one cell per character of the selected set, in order, a custom
\* string keeping its duplicates.
C8_Grid ==
    /\ (fontA = NoFont \/ fontB = NoFont) => Len(gridCells) = 0
    /\ (fontA # NoFont /\ fontB # NoFont /\ gridOpen) =>
          /\ Len(gridCells) = Len(gridChars)
          /\ \A k \in 1..Len(gridChars) : gridCells[k] = gridChars[k]
          /\ gridCharsPreset = "custom" => gridCells = customChars
          /\ gridCharsPreset = "digits" => gridCells = DigitChars

\* The grid is open on a custom string with a repeated character while slot
\* B is empty.
C8_Witness ==
    /\ fontA # NoFont
    /\ fontB = NoFont
    /\ gridOpen
    /\ gridCharsPreset = "custom"
    /\ customChars = <<"a", "b", "a">>

RECURSIVE AdvanceSum(_, _, _)
AdvanceSum(face, s, n) ==
    IF n = 0 THEN 0 ELSE AdvanceSum(face, s, n - 1) + Advance(face, s[n])

\* The reference width: the platform's width of the whole string without
\* spacing; with spacing k, every character's own width plus k, no kerning.
ReferenceWidth(fontName, content, k) ==
    IF k = 0 THEN MeasureText(fontName, fontSize, content)
    ELSE fontSize * AdvanceSum(FaceOf(fontName), content, Len(content)) + k * Len(content)

\* C9: measureString of a loaded font equals the reference width, and is 0
\* for the empty string under a positive spacing.
C9_MeasureString ==
    \A slot \in {fontA, fontB} :
        slot # NoFont =>
            /\ measureString(slot[1].name, text, letterSpacing)
                 = ReferenceWidth(slot[1].name, text, letterSpacing)
            /\ (text = <<>> /\ letterSpacing > 0) =>
                 measureString(slot[1].name, text, letterSpacing) = 0

\* A kerned string is measured under a positive spacing: the shaped width
\* differs from the sum of the characters' widths.
C9_Witness ==
    /\ fontA # NoFont
    /\ letterSpacing > 0
    /\ text # <<>>
    /\ MeasureText(fontA[1].name, fontSize, text)
         # fontSize * AdvanceSum(FaceOf(fontA[1].name), text, Len(text))

----------------------------------------------------------------------------
(* Every handler, the user doing one kind of thing at a time               *)
(* (SpecControls): at most one load is in flight, and of the render         *)
(* parameters, the drag state and the slots with their loads and log, at    *)
(* most one is away from where it starts.                                   *)

ParamsAtRest ==
    params = <<DefaultText, 120, 0, 0, 0, "red-cyan", TRUE, FALSE, 1, FALSE,
               "basic-latin", <<>> >>
DragAtRest == dragCounter = 0 /\ ~isDragging
LoadsAtRest == slots = <<NoFont, NoFont>> /\ tasks = <<>> /\ messages = <<>>

OneAtATime ==
    /\ Len(tasks) <= 1
    /\ \/ ParamsAtRest /\ DragAtRest
       \/ ParamsAtRest /\ LoadsAtRest
       \/ DragAtRest /\ LoadsAtRest

Ctl ==
    /\ UNCHANGED <<dragEvents, loadHistory>>
    /\ Within(MaxTasks, MaxPushes, MaxDrag)
    /\ OneAtATime'

NextControls ==
    \/ \E v \in TextInputs : onTextChange(v) /\ Ctl
    \/ \E v \in FontSizeInputs : onFontSizeChange(v) /\ Ctl
    \/ \E v \in LetterSpacingInputs : onLetterSpacingChange(v) /\ Ctl
    \/ \E v \in OffsetInputs : onDxChange(v) /\ Ctl
    \/ \E v \in OffsetInputs : onDyChange(v) /\ Ctl
    \/ \E m \in OverlayModes : onOverlayModeClick(m) /\ Ctl
    \/ \E b \in BOOLEAN : onStrokeChange(b) /\ Ctl
    \/ \E v \in StrokeWidthInputs : onStrokeWidthChange(v) /\ Ctl
    \/ \E b \in BOOLEAN : onShowCheckerChange(b) /\ Ctl
    \/ onGridToggle /\ Ctl
    \/ \E v \in GridPresets : onPresetChange(v) /\ Ctl
    \/ \E v \in CustomInputs : onCustomCharsChange(v) /\ Ctl
    \/ \E files \in DropInputs : onDrop(files) /\ Ctl
    \/ \E i \in 1..Len(tasks), o \in Outcomes : resumeDrop(i, o) /\ Ctl
    \/ \E c \in PickInputs, w \in SlotLabels : handleFilePick(c, w) /\ Ctl
    \/ \E i \in 1..Len(tasks), o \in Outcomes : resumeFilePick(i, o) /\ Ctl
    \/ \E w \in SlotLabels : reset(w) /\ Ctl
    \/ onDragEnter /\ Ctl
    \/ onDragLeave /\ Ctl

SpecControls == Init /\ [][NextControls]_vars

\* The state fields a step changes.
ChangedFields ==
    (IF fontA' # fontA THEN {"fontA"} ELSE {})
    \cup (IF fontB' # fontB THEN {"fontB"} ELSE {})
    \cup (IF text' # text THEN {"text"} ELSE {})
    \cup (IF fontSize' # fontSize THEN {"fontSize"} ELSE {})
    \cup (IF letterSpacing' # letterSpacing THEN {"letterSpacing"} ELSE {})
    \cup (IF dx' # dx THEN {"dx"} ELSE {})
    \cup (IF dy' # dy THEN {"dy"} ELSE {})
    \cup (IF overlayMode' # overlayMode THEN {"overlayMode"} ELSE {})
    \cup (IF showChecker' # showChecker THEN {"showChecker"} ELSE {})
    \cup (IF stroke' # stroke THEN {"stroke"} ELSE {})
    \cup (IF strokeWidth' # strokeWidth THEN {"strokeWidth"} ELSE {})
    \cup (IF gridOpen' # gridOpen THEN {"gridOpen"} ELSE {})
    \cup (IF gridCharsPreset' # gridCharsPreset THEN {"gridCharsPreset"} ELSE {})
    \cup (IF customChars' # customChars THEN {"customChars"} ELSE {})
    \cup (IF messages' # messages THEN {"messages"} ELSE {})
    \cup (IF dragCounter' # dragCounter THEN {"dragCounter"} ELSE {})
    \cup (IF isDragging' # isDragging THEN {"isDragging"} ELSE {})

SlotField(label) == IF label = "A" THEN "fontA" ELSE "fontB"

\* A step of the handler act changes no field outside fields: the frame is
\* looked at first, the handler only for a step that breaks it.
Only(act, changed, fields) == changed \subseteq fields \/ ~act

\* Each parameter control changes at most its own parameter, and reset(X)
\* at most slot X.
ParameterFrames(changed) ==
    /\ Only(\E v \in TextInputs : onTextChange(v), changed, {"text"})
    /\ Only(\E v \in FontSizeInputs : onFontSizeChange(v), changed, {"fontSize"})
    /\ Only(\E v \in LetterSpacingInputs : onLetterSpacingChange(v), changed,
            {"letterSpacing"})
    /\ Only(\E v \in OffsetInputs : onDxChange(v), changed, {"dx"})
    /\ Only(\E v \in OffsetInputs : onDyChange(v), changed, {"dy"})
    /\ Only(\E m \in OverlayModes : onOverlayModeClick(m), changed, {"overlayMode"})
    /\ Only(\E b \in BOOLEAN : onStrokeChange(b), changed, {"stroke"})
    /\ Only(\E v \in StrokeWidthInputs : onStrokeWidthChange(v), changed, {"strokeWidth"})
    /\ Only(\E b \in BOOLEAN : onShowCheckerChange(b), changed, {"showChecker"})
    /\ Only(onGridToggle, changed, {"gridOpen"})
    /\ Only(\E v \in GridPresets : onPresetChange(v), changed, {"gridCharsPreset"})
    /\ Only(\E v \in CustomInputs : onCustomCharsChange(v), changed, {"customChars"})
    /\ \A w \in SlotLabels : Only(reset(w), changed, {SlotField(w)})

\* C10 as stated: besides the parameter controls and reset, every step of a
\* file pick for slot X changes at most slot X, and the drop of a
\* drag-and-drop gesture, like each load it starts, changes at most one
\* field.
C10_OneFieldPerControl ==
    [][LET changed == ChangedFields
       IN  /\ ParameterFrames(changed)
           /\ \A w \in SlotLabels :
                 Only(\E c \in PickInputs : handleFilePick(c, w), changed, {SlotField(w)})
           /\ \A i \in 1..Len(tasks) :
                 Only(\E o \in Outcomes : resumeFilePick(i, o), changed,
                      {SlotField(tasks[i].label)})
           /\ Cardinality(changed) <= 1
              \/ ~ \/ \E files \in DropInputs : onDrop(files)
                   \/ \E i \in 1..Len(tasks), o \in Outcomes : resumeDrop(i, o)
      ]_vars

\* C10 as amended: the parameter controls and reset as stated; a file pick
\* changes only its slot when its load succeeds and only the message log
\* when it fails; of a drag-and-drop gesture the enter and leave events
\* change only the drag counter and the highlight, the drop only those two
\* and the message log, and each load it starts only the slot it is for on
\* success and only the message log on failure.
C10_ControlFrames ==
    [][LET changed == ChangedFields
       IN  /\ ParameterFrames(changed)
           /\ Only(\E c \in PickInputs, w \in SlotLabels : handleFilePick(c, w),
                   changed, {})
           /\ \A i \in 1..Len(tasks) :
                 /\ Only(resumeFilePick(i, "ok") \/ resumeDrop(i, "ok"), changed,
                         {SlotField(tasks[i].label)})
                 /\ changed = {"messages"}
                    \/ ~ \E e \in LoadErrors : resumeFilePick(i, e) \/ resumeDrop(i, e)
           /\ Only(\E files \in DropInputs : onDrop(files), changed,
                   {"dragCounter", "isDragging", "messages"})
           /\ Only(onDragEnter \/ onDragLeave, changed, {"dragCounter", "isDragging"})
      ]_vars

\* A drop onto two filled slots has been rejected: the drop has acted, and
\* the slots are as the picks, loads and resets before it left them.
C10_Witness ==
    /\ fontA # NoFont
    /\ fontB # NoFont
    /\ tasks = <<>>
    /\ messages # <<>>
    /\ messages[1].msg = MsgOccupied

----------------------------------------------------------------------------
(* Loads racing one another and the clear buttons (SpecRace): up to         *)
(* MaxRacing loads are started, in any overlap, and loadHistory records     *)
(* what each load in flight has lived through.                              *)

\* The record kept for a load from its start: outlived, whether another load
\* for the same slot has settled since; joined, whether another load for the
\* same slot has been started since; resetSince, whether the slot's clear
\* button has been pressed since.
NewLoad == [outlived |-> FALSE, joined |-> FALSE, resetSince |-> FALSE]

\* pending with the field set on the loads in flight for slot label, the
\* i-th excepted.
Mark(pending, i, label, field) ==
    [k \in 1..Len(pending) |->
        IF k # i /\ tasks[k].label = label
        THEN [pending[k] EXCEPT ![field] = TRUE]
        ELSE pending[k]]

\* A handler that has suspended itself at a load has appended it to tasks.
HistoryStart ==
    IF Len(tasks') = Len(tasks) + 1
    THEN loadHistory' =
            [loadHistory EXCEPT
                !.started = @ + 1,
                !.pending = Append(Mark(@, 0, tasks'[Len(tasks')].label, "joined"),
                                   NewLoad)]
    ELSE UNCHANGED loadHistory

\* The load of tasks[i] settles; a drop that goes on to its second file
\* starts a new load in the same place.
HistorySettle(i, outcome) ==
    LET t == tasks[i]
        info == loadHistory.pending[i]
        settled == [label |-> t.label, file |-> t.files[t.idx], ok |-> outcome = "ok",
                    outlived |-> info.outlived, joined |-> info.joined,
                    resetSince |-> info.resetSince]
        rest == Mark(loadHistory.pending, i, t.label, "outlived")
        goesOn == Len(tasks') = Len(tasks)
    IN  loadHistory' =
            [loadHistory EXCEPT
                !.started = @ + (IF goesOn THEN 1 ELSE 0),
                !.pending = IF goesOn
                            THEN [Mark(rest, i, tasks'[i].label, "joined")
                                     EXCEPT ![i] = NewLoad]
                            ELSE Remove(rest, i),
                !.last = <<settled>>]

HistoryReset(which) ==
    loadHistory' = [loadHistory EXCEPT !.pending = Mark(@, 0, which, "resetSince")]

Race ==
    /\ UNCHANGED dragEvents
    /\ loadHistory'.started <= MaxRacing
    /\ Within(MaxRacing, MaxPushes, 0)

\* The font files at hand while loads race.
RaceDrops ==
    {files \in DropInputs :
        Len(files) >= 1 /\ \A k \in 1..Len(files) : IsFontFile(files[k])}
RacePicks == {c \in PickInputs : \A k \in 1..Len(c) : IsFontFile(c[k])}

NextRace ==
    \/ \E files \in RaceDrops : onDrop(files) /\ HistoryStart /\ Race
    \/ \E i \in 1..Len(tasks), o \in Outcomes :
          resumeDrop(i, o) /\ HistorySettle(i, o) /\ Race
    \/ \E c \in RacePicks, w \in SlotLabels : handleFilePick(c, w) /\ HistoryStart /\ Race
    \/ \E i \in 1..Len(tasks), o \in Outcomes :
          resumeFilePick(i, o) /\ HistorySettle(i, o) /\ Race
    \/ \E w \in SlotLabels : reset(w) /\ HistoryReset(w) /\ Race

SpecRace == Init /\ [][NextRace]_vars

\* The value of a slot before and after a step.
SlotValue(label) == IF label = "A" THEN fontA ELSE fontB
NextSlotValue(label) == IF label = "A" THEN fontA' ELSE fontB'

\* The load of tasks[i] settles with outcome o.
Settle(i, o) == resumeFilePick(i, o) \/ resumeDrop(i, o)

\* The load of tasks[i] has a rival: another load for its slot is in flight,
\* or has settled since this one was started.
Raced(i) ==
    \/ loadHistory.pending[i].outlived
    \/ \E k \in 1..Len(tasks) : k # i /\ tasks[k].label = tasks[i].label

\* The load of tasks[i] is the last of a race to settle.
LastOfRace(i) ==
    /\ loadHistory.pending[i].outlived
    /\ \A k \in 1..Len(tasks) : k # i => tasks[k].label # tasks[i].label

\* No step takes a load out of flight but the load's own settlement.
NoCancel ==
    \/ Len(tasks') >= Len(tasks) /\ SubSeq(tasks', 1, Len(tasks)) = tasks
    \/ \E i \in 1..Len(tasks) :
          /\ \E o \in Outcomes : Settle(i, o)
          /\ \/ tasks' = Remove(tasks, i)
             \/ tasks' = [tasks EXCEPT ![i] = Task("drop", tasks[i].files, 2, "B")]

\* C11 as stated: no load is cancelled, a successful load with a rival
\* writes its slot when it settles, and when the last load of a race
\* settles, whatever its outcome, the slot holds that load's font.
C11_LastResolvedWins ==
    [][/\ NoCancel
       /\ \A i \in 1..Len(tasks) :
             LET t == tasks[i]
                 font == <<LoadedFont(t.files[t.idx], t.label)>>
             IN  /\ (Raced(i) /\ Settle(i, "ok")) => NextSlotValue(t.label) = font
                 /\ (LastOfRace(i) /\ \E o \in Outcomes : Settle(i, o)) =>
                        NextSlotValue(t.label) = font
      ]_vars

\* C11 as amended: no load is cancelled; a load with a rival writes its slot
\* when it settles successfully, whichever of them was started first, and
\* leaves the slot as it is when it fails, so that after a race the slot
\* holds the font of the last load to settle successfully.
C11_LastSuccessWins ==
    [][/\ NoCancel
       /\ \A i \in 1..Len(tasks) :
             LET t == tasks[i]
                 font == <<LoadedFont(t.files[t.idx], t.label)>>
             IN  Raced(i) =>
                    /\ Settle(i, "ok") => NextSlotValue(t.label) = font
                    /\ \A e \in LoadErrors :
                          Settle(i, e) => NextSlotValue(t.label) = SlotValue(t.label)
      ]_vars

\* Two loads for one slot have both settled; the one started first settled
\* last, after the one started second, and the slot holds its font.
C11_Witness ==
    /\ tasks = <<>>
    /\ loadHistory.last # <<>>
    /\ LET l == loadHistory.last[1]
       IN  /\ l.ok
           /\ l.joined
           /\ l.outlived
           /\ SlotValue(l.label) = <<LoadedFont(l.file, l.label)>>

\* C14: the clear button of slot X leaves every load in flight, and a load
\* for slot X that settles successfully after the button was pressed during
\* it writes its font into slot X all the same.
C14_ResetDoesNotCancel ==
    [][/\ \A w \in SlotLabels : reset(w) => tasks' = tasks
       /\ \A i \in 1..Len(tasks) :
             (loadHistory.pending[i].resetSince /\ Settle(i, "ok")) =>
                 NextSlotValue(tasks[i].label) =
                     <<LoadedFont(tasks[i].files[tasks[i].idx], tasks[i].label)>>
      ]_vars

\* Two loads were started and no more; the clear button of a slot was
\* pressed while the one that settled last was in flight, and the slot holds
\* that load's font: it is filled again with no load started after the
\* clearing.
C14_Witness ==
    /\ tasks = <<>>
    /\ loadHistory.started = 2
    /\ loadHistory.last # <<>>
    /\ LET l == loadHistory.last[1]
       IN  /\ l.ok
           /\ l.resetSince
           /\ SlotValue(l.label) = <<LoadedFont(l.file, l.label)>>

----------------------------------------------------------------------------
(* Enter, leave and drop events on the drop zones in any interleaving       *)
(* (SpecZone), with their history.                                          *)

Zone(ev) ==
    /\ dragEvents' = Append(dragEvents, ev)
    /\ Len(dragEvents') <= MaxDragEvents
    /\ UNCHANGED loadHistory
    /\ Within(MaxTasks, MaxLogPushes, MaxDragEvents)

NextZone ==
    \/ onDragEnter /\ Zone("enter")
    \/ onDragLeave /\ Zone("leave")
    \/ \E files \in DropInputs : onDrop(files) /\ Zone("drop")

SpecZone == Init /\ [][NextZone]_vars

\* C12 as stated: in every reachable state the highlight is on exactly when
\* the enter/leave counter is greater than 0.
C12_HighlightIffPositive == isDragging <=> dragCounter > 0

\* The events since the last drop, up to and including the n-th.
SinceDrop(n) ==
    {k \in 1..n : \A j \in k..n : dragEvents[j] # "drop"}

\* Since the last drop some leave has come with no enter to match it.
UnmatchedLeave ==
    \E n \in SinceDrop(Len(dragEvents)) :
        /\ dragEvents[n] = "leave"
        /\ Cardinality({k \in SinceDrop(n) : dragEvents[k] = "leave"})
              > Cardinality({k \in SinceDrop(n) : dragEvents[k] = "enter"})

\* C12 as amended: the highlight is on whenever the counter is greater than
\* 0, and it is on exactly then as long as every leave since the last drop
\* was matched by an enter since that drop.
C12_HighlightWhilePositive ==
    /\ dragCounter > 0 => isDragging
    /\ ~UnmatchedLeave => (isDragging <=> dragCounter > 0)

\* A drop under two enters has zeroed the counter, and the next enter has
\* switched the highlight on again.
C12_Witness ==
    /\ dragEvents = <<"enter", "enter", "drop", "enter">>
    /\ dragCounter = 1
    /\ isDragging

----------------------------------------------------------------------------
(* Drop gestures one at a time, from any filling of the slots, and nothing  *)
(* else (SpecGesture): each drop is handled when the loads of the one       *)
(* before it have settled, and loadHistory keeps what the slots held then.  *)

Gesture == UNCHANGED dragEvents /\ Within(MaxTasks, MaxPushes, 0)

NextGesture ==
    \/ \E files \in DropInputs :
          /\ tasks = <<>>
          /\ onDrop(files)
          /\ loadHistory' = [loadHistory EXCEPT !.held = <<fontA, fontB>>]
          /\ Gesture
    \/ \E i \in 1..Len(tasks), o \in Outcomes :
          resumeDrop(i, o) /\ UNCHANGED loadHistory /\ Gesture

SpecGesture == InitLoaded /\ [][NextGesture]_vars

\* C13: when all the loads of a drop have settled, every slot that held a
\* font when the drop was handled holds that font still.
C13_DropNeverReplaces ==
    tasks = <<>> =>
        /\ loadHistory.held[1] # NoFont => fontA = loadHistory.held[1]
        /\ loadHistory.held[2] # NoFont => fontB = loadHistory.held[2]

====
